---- MODULE Spec2Model ----
(***************************************************************************)
(* EdDSA signature verification inside a zk-SNARK circuit                  *)
(* (1010adigupta/eddsa-gnark).                                             *)
(*                                                                         *)
(* The repository's own code is main.go (main, TestEdDSA,                  *)
(* TestEdDSAWithInvalidSignature), the circuit (EdDSACircuit, Define) and  *)
(* its test (TestEdDSACircuit).  The curve, the hash, EdDSA and groth16    *)
(* are library code that is not part of the sources; they are modelled     *)
(* here from the specification's sections 3, 4 and 7, over a scaled-down   *)
(* twisted Edwards curve: a 15-bit field, so that a field element is two   *)
(* bytes and a compressed point is 15 bits of Y plus one sign bit, as the  *)
(* 254-bit field of BN254 fills 32 bytes.                                  *)
(***************************************************************************)
EXTENDS Integers, Sequences, FiniteSets

(***************************************************************************)
(* Bounds of the model.                                                    *)
(***************************************************************************)
\* key generation draws the private scalar from 1..MaxScalar
MaxScalar == 3
\* key generation draws the nonce seed (randSrc) from 0..MaxRand
MaxRand == 2

(***************************************************************************)
(* 4.1 Curve and field arithmetic (scaled down).                           *)
(***************************************************************************)
\* field modulus: a prime, 5 mod 8, below 2^15
P == 32693
\* bytes of one field element
sizeFr == 2
\* order of the prime subgroup generated by Base
Order == 4111
\* twisted Edwards coefficient a = -1
CurveA == P - 1
\* twisted Edwards coefficient d, a non-square
CurveD == 5
Base == <<18904, 26274>>
Identity == <<0, 1>>

\* the element of a one-element set: its operand is evaluated once, before
\* the expression that uses it
The(S) == CHOOSE v \in S : TRUE

FAdd(a, b) == (a + b) % P
FSub(a, b) == (a - b + P) % P
FMul(a, b) == (a * b) % P

RECURSIVE FPow(_, _)
FPow(a, e) ==
    IF e = 0 THEN 1
    ELSE The({ IF e % 2 = 1 THEN FMul(FMul(h, h), a) ELSE FMul(h, h) :
                   h \in {FPow(a, e \div 2)} })

FInv(a) == FPow(a, P - 2)

\* square root in a field with P = 5 mod 8; -1 when there is none
FSqrt(v) ==
    LET c == FPow(v, (P + 3) \div 8)
        c2 == FMul(c, c)
    IN IF c2 = v THEN c
       ELSE IF c2 = FSub(0, v) THEN FMul(c, FPow(2, (P - 1) \div 4))
       ELSE -1

\* the curve equation a x^2 + y^2 = 1 + d x^2 y^2
IsOnCurve(p) ==
    LET x2 == FMul(p[1], p[1])
        y2 == FMul(p[2], p[2])
    IN FAdd(FMul(CurveA, x2), y2) = FAdd(1, FMul(CurveD, FMul(x2, y2)))

\* the twisted Edwards addition law
PointAdd(p1, p2) ==
    LET x1y2 == FMul(p1[1], p2[2])
        y1x2 == FMul(p1[2], p2[1])
        y1y2 == FMul(p1[2], p2[2])
        x1x2 == FMul(p1[1], p2[1])
        t == FMul(CurveD, FMul(x1x2, y1y2))
    IN << FMul(FAdd(x1y2, y1x2), FInv(FAdd(1, t))),
          FMul(FSub(y1y2, FMul(CurveA, x1x2)), FInv(FSub(1, t))) >>

PointNeg(p) == << FSub(0, p[1]), p[2] >>

RECURSIVE ScalarMul(_, _)
ScalarMul(p, k) ==
    IF k = 0 THEN Identity
    ELSE The({ IF k % 2 = 1 THEN PointAdd(PointAdd(h, h), p) ELSE PointAdd(h, h) :
                   h \in {ScalarMul(p, k \div 2)} })

\* x is the larger of x and -x
LexicographicallyLargest(x) == x > (P - 1) \div 2

(***************************************************************************)
(* Byte encodings.                                                         *)
(***************************************************************************)
RECURSIVE Reverse(_)
Reverse(s) == IF Len(s) = 0 THEN <<>> ELSE Append(Reverse(Tail(s)), Head(s))

\* fr.Element.Bytes: big-endian, sizeFr bytes
RECURSIVE BigEndian(_, _)
BigEndian(x, n) ==
    IF n = 0 THEN <<>> ELSE Append(BigEndian(x \div 256, n - 1), x % 256)

FrBytes(x) == BigEndian(x, sizeFr)

\* fr.Element.SetBytes / big.Int.SetBytes: big-endian, reduced into the field
RECURSIVE BytesToField(_)
BytesToField(buf) ==
    IF Len(buf) = 0 THEN 0
    ELSE (BytesToField(SubSeq(buf, 1, Len(buf) - 1)) * 256 + buf[Len(buf)]) % P

\* b ^ (1 << k) on one byte
XorBit(b, k) == IF (b \div (2 ^ k)) % 2 = 0 THEN b + 2 ^ k ELSE b - 2 ^ k

\* the compressed form of a point: Y in little-endian, the sign of X in the
\* top bit of the last byte
PointBytes(p) ==
    LET y == FrBytes(p[2])
        masked == [y EXCEPT ![1] = IF LexicographicallyLargest(p[1])
                                   THEN (y[1] % 128) + 128 ELSE y[1]]
    IN Reverse(masked)

\* X from Y by the curve equation: x^2 = (1 - y^2) / (a - d y^2); -1 if none
computeX(y) ==
    LET y2 == FMul(y, y)
        num == FSub(1, y2)
        den == FSub(CurveA, FMul(CurveD, y2))
    IN FSqrt(FMul(num, FInv(den)))

\* decoding of a compressed point; a Y with no point on the curve is
\* rejected at decode time (4.1)
PointSetBytes(buf) ==
    IF Len(buf) < sizeFr THEN [err |-> "short buffer", point |-> Identity]
    ELSE
    LET be == Reverse(SubSeq(buf, 1, sizeFr))
        neg == be[1] >= 128
        y == BytesToField([be EXCEPT ![1] = be[1] % 128])
        x == computeX(y)
    IN IF x = -1 THEN [err |-> "point not on curve", point |-> Identity]
       ELSE [err |-> "",
             point |-> IF neg = LexicographicallyLargest(x)
                       THEN <<x, y>> ELSE <<FSub(0, x), y>>]

(***************************************************************************)
(* 4.2 Hash transcript: a MiMC-style permutation, Miyaguchi-Preneel        *)
(* chaining, exponent 5.                                                   *)
(***************************************************************************)
mimcConstants == <<7, 11, 13, 17>>

RECURSIVE encryptFrom(_, _, _)
encryptFrom(h, m, i) ==
    IF i > Len(mimcConstants) THEN FAdd(m, h)
    ELSE The({ encryptFrom(h, m5, i + 1) :
                   m5 \in {FPow(FAdd(FAdd(m, h), mimcConstants[i]), 5)} })

\* native evaluation of the hash of a sequence of field elements
RECURSIVE mimcSum(_)
mimcSum(data) ==
    IF Len(data) = 0 THEN 0
    ELSE The({ FAdd(FAdd(encryptFrom(h, data[Len(data)], 1), h), data[Len(data)]) :
                   h \in {mimcSum(SubSeq(data, 1, Len(data) - 1))} })

(***************************************************************************)
(* EdDSA outside the circuit (gnark-crypto's signature/eddsa).             *)
(***************************************************************************)
\* the key pair of a private scalar and a nonce seed
NewPrivateKey(scalar, randSrc) ==
    [scalar |-> scalar, randSrc |-> randSrc, A |-> ScalarMul(Base, scalar)]

Public(privateKey) == [A |-> privateKey.A]

PublicKeyBytes(publicKey) == PointBytes(publicKey.A)

\* the deterministic nonce of a signature
Nonce(privateKey, msg) ==
    mimcSum(<<privateKey.randSrc, BytesToField(msg)>>) % Order

\* H(R, A, M)
Challenge(R, A, msg) ==
    mimcSum(<<R[1], R[2], A[1], A[2], BytesToField(msg)>>)

\* privateKey.Sign(msg, hFunc): R = r.Base, S = r + H(R,A,M).scalar
Sign(privateKey, msg) ==
    LET r == Nonce(privateKey, msg)
        R == ScalarMul(Base, r)
        c == Challenge(R, privateKey.A, msg)
        S == (r + c * privateKey.scalar) % Order
    IN PointBytes(R) \o FrBytes(S)

\* publicKey.Verify(sig, msg, hFunc): (isValid, err)
NativeVerify(publicKey, sigBin, msg) ==
    IF Len(sigBin) # 2 * sizeFr
    THEN [isValid |-> FALSE, err |-> "wrong size"]
    ELSE
    LET dec == PointSetBytes(SubSeq(sigBin, 1, sizeFr))
        S == BytesToField(SubSeq(sigBin, sizeFr + 1, 2 * sizeFr))
    IN IF dec.err # "" THEN [isValid |-> FALSE, err |-> dec.err]
       ELSE LET c == Challenge(dec.point, publicKey.A, msg)
                lhs == ScalarMul(Base, S)
                rhs == PointAdd(dec.point, ScalarMul(publicKey.A, c))
            IN [isValid |-> lhs = rhs, err |-> ""]

\* privateKey.Bytes(): the public key, the scalar and the nonce seed
PrivateKeyBytes(privateKey) ==
    PointBytes(privateKey.A) \o FrBytes(privateKey.scalar)
        \o FrBytes(privateKey.randSrc)

(***************************************************************************)
(* The circuit: EdDSACircuit and its witness.                              *)
(***************************************************************************)
\* an unassigned frontend.Variable
nil == <<>>

\* the fields of EdDSACircuit with their gnark tags
EdDSACircuitFields ==
    << [name |-> "PublicKey", tag |-> "public",
        leaves |-> <<"PublicKey.A.X", "PublicKey.A.Y">>],
       [name |-> "Signature", tag |-> "public",
        leaves |-> <<"Signature.R.X", "Signature.R.Y", "Signature.S">>],
       [name |-> "Message", tag |-> "public", leaves |-> <<"Message">>] >>

\* var circuit EdDSACircuit: every variable unassigned
ZeroCircuit ==
    [PublicKey |-> [A |-> [X |-> nil, Y |-> nil]],
     Signature |-> [R |-> [X |-> nil, Y |-> nil], S |-> nil],
     Message |-> nil,
     panic |-> ""]

\* PublicKey.Assign(curveID, buf): the point of the compressed key, as the
\* big-endian bytes of its coordinates
PublicKeyAssign(c, buf) ==
    LET dec == PointSetBytes(buf)
    IN IF dec.err # "" THEN [c EXCEPT !.panic = dec.err]
       ELSE [c EXCEPT !.PublicKey =
                 [A |-> [X |-> FrBytes(dec.point[1]), Y |-> FrBytes(dec.point[2])]]]

\* Signature.Assign(curveID, buf): R uncompressed, S as its bytes
SignatureAssign(c, buf) ==
    LET dec == PointSetBytes(buf)
    IN IF dec.err # "" THEN [c EXCEPT !.panic = dec.err]
       ELSE [c EXCEPT !.Signature =
                 [R |-> [X |-> FrBytes(dec.point[1]), Y |-> FrBytes(dec.point[2])],
                  S |-> SubSeq(buf, sizeFr + 1, 2 * sizeFr)]]

\* the value of one leaf variable of a circuit value
Leaf(c, name) ==
    CASE name = "PublicKey.A.X" -> c.PublicKey.A.X
      [] name = "PublicKey.A.Y" -> c.PublicKey.A.Y
      [] name = "Signature.R.X" -> c.Signature.R.X
      [] name = "Signature.R.Y" -> c.Signature.R.Y
      [] name = "Signature.S" -> c.Signature.S
      [] name = "Message" -> c.Message

RECURSIVE LeavesTagged(_, _)
LeavesTagged(fields, tag) ==
    IF Len(fields) = 0 THEN <<>>
    ELSE (IF Head(fields).tag = tag THEN Head(fields).leaves ELSE <<>>)
         \o LeavesTagged(Tail(fields), tag)

RECURSIVE LeafValues(_, _)
LeafValues(c, names) ==
    IF Len(names) = 0 THEN <<>>
    ELSE <<[name |-> Head(names), value |-> BytesToField(Leaf(c, Head(names)))] >>
         \o LeafValues(c, Tail(names))

HasNilLeaf(c, names) == \E i \in 1..Len(names) : Leaf(c, names[i]) = nil

\* frontend.NewWitness(&assignment, field): the public variables, then the
\* secret ones, each converted to a field element
NewWitness(c) ==
    LET pub == LeavesTagged(EdDSACircuitFields, "public")
        sec == LeavesTagged(EdDSACircuitFields, "secret")
    IN IF HasNilLeaf(c, pub \o sec)
       THEN [err |-> "unassigned variable", public |-> <<>>, secret |-> <<>>]
       ELSE [err |-> "", public |-> LeafValues(c, pub), secret |-> LeafValues(c, sec)]

\* witness.Public()
WitnessPublic(w) == [err |-> "", public |-> w.public, secret |-> <<>>]

\* the value a witness gives to a leaf variable
WitnessValue(w, name) ==
    LET all == w.public \o w.secret
    IN all[CHOOSE i \in 1..Len(all) : all[i].name = name].value

(***************************************************************************)
(* Define: the constraints of EdDSACircuit, evaluated on a witness with    *)
(* the operations of the constraint API.                                   *)
(***************************************************************************)
\* the hash inside the circuit: absorbs its inputs left to right
circuitPow5(v) ==
    LET v2 == FMul(v, v)
        v4 == FMul(v2, v2)
    IN FMul(v4, v)

RECURSIVE circuitEncrypt(_, _, _)
circuitEncrypt(k, m, i) ==
    IF i > Len(mimcConstants) THEN FAdd(m, k)
    ELSE The({ circuitEncrypt(k, m5, i + 1) :
                   m5 \in {circuitPow5(FAdd(FAdd(m, k), mimcConstants[i]))} })

RECURSIVE circuitMimc(_, _)
circuitMimc(state, data) ==
    IF Len(data) = 0 THEN state
    ELSE The({ circuitMimc(next, Tail(data)) :
                   next \in {FAdd(FAdd(state, circuitEncrypt(state, Head(data), 1)),
                                  Head(data))} })

\* scalar multiplication on the bits of the scalar, lowest first
RECURSIVE circuitScalarMul(_, _, _)
circuitScalarMul(acc, pt, k) ==
    IF k = 0 THEN acc
    ELSE The({ circuitScalarMul(acc2, pt2, k \div 2) :
                   acc2 \in {IF k % 2 = 1 THEN PointAdd(acc, pt) ELSE acc},
                   pt2 \in {PointAdd(pt, pt)} })

\* eddsa.Verify(curve, sig, msg, pubKey, &hash): the pairs of values the
\* circuit constrains to be equal
eddsaVerifyConstraints(sigR, sigS, msgVar, pubA) ==
    LET hRAM == circuitMimc(0, <<sigR[1], sigR[2], pubA[1], pubA[2], msgVar>>)
        lhs == circuitScalarMul(Identity, Base, sigS)
        rhs == PointAdd(sigR, circuitScalarMul(Identity, pubA, hRAM))
    IN << <<lhs[1], rhs[1]>>, <<lhs[2], rhs[2]>> >>

\* a Define that leaves the message out of the hashed data
DefineMut(w) ==
    eddsaVerifyConstraints(
        <<WitnessValue(w, "Signature.R.X"), WitnessValue(w, "Signature.R.Y")>>,
        WitnessValue(w, "Signature.S"),
        0,
        <<WitnessValue(w, "PublicKey.A.X"), WitnessValue(w, "PublicKey.A.Y")>>)

\* EdDSACircuit.Define on the values of a witness
Define(w) ==
    eddsaVerifyConstraints(
        <<WitnessValue(w, "Signature.R.X"), WitnessValue(w, "Signature.R.Y")>>,
        WitnessValue(w, "Signature.S"),
        WitnessValue(w, "Message"),
        <<WitnessValue(w, "PublicKey.A.X"), WitnessValue(w, "PublicKey.A.Y")>>)

\* the solver: every constraint holds
IsSolved(w) ==
    LET cons == Define(w)
    IN \A i \in 1..Len(cons) : cons[i][1] = cons[i][2]

(***************************************************************************)
(* The proving system (6): compile, setup, prove, verify.                  *)
(***************************************************************************)
\* frontend.Compile(field, r1cs.NewBuilder, &circuit): the n-th compiled
\* system; it depends on the shape of the circuit only
Compile(n, c) ==
    [id |-> n,
     nbPublic |-> Len(LeavesTagged(EdDSACircuitFields, "public")),
     nbSecret |-> Len(LeavesTagged(EdDSACircuitFields, "secret"))]

\* groth16.Setup(ccs): the keys of the n-th setup
SetupPk(n, sys) == [setup |-> n, ccs |-> sys.id]
SetupVk(n, sys) == [setup |-> n, ccs |-> sys.id]

NoProof(err) == [err |-> err, setup |-> 0, ccs |-> 0, public |-> <<>>]

\* groth16.Prove(ccs, pk, witness): fails when its randomness cannot be
\* read and on an unsatisfied constraint
Prove(sys, provingKey, w, randOk) ==
    IF ~randOk THEN NoProof("rand")
    ELSE IF provingKey.ccs # sys.id THEN NoProof("key mismatch")
    ELSE IF ~IsSolved(w) THEN NoProof("constraint not satisfied")
    ELSE [err |-> "", setup |-> provingKey.setup, ccs |-> sys.id, public |-> w.public]

\* groth16.Verify(proof, vk, publicWitness): "" or the error
Groth16Verify(prf, verifyingKey, pubW) ==
    IF prf.setup = verifyingKey.setup /\ prf.ccs = verifyingKey.ccs
       /\ pubW.secret = <<>> /\ pubW.public = prf.public
    THEN "" ELSE "pairing check failed"

(***************************************************************************)
(* The program: main runs TestEdDSA, then TestEdDSAWithInvalidSignature.   *)
(***************************************************************************)
VARIABLES
    fn,                 \* the function main is in, or "exit"
    pc,                 \* the next statement of that function
    exitCode,           \* -1 while running; 0 main returned; 1 os.Exit(1); 2 panic
    privateKey,         \* locals of the running function; <<>> while unset
    publicKey,
    signature,
    tamperedSignature,
    isValid,            \* <<isValid, err>> of the native verification
    ccs,
    pk,
    vk,
    assignment,
    witness,
    publicWitness,
    proof,
    calls,              \* history: the library calls made, with their outcomes
    tpc,                \* TestEdDSACircuit (the circuit's test): next step
    tin,                \* its inputs: key, message and the change to the signature
    tsig,               \* the signature it assigns
    tnative,            \* the outcome of native verification
    twitness,           \* the witness, <<>> before encoding
    tsolved             \* the outcome of solving: "", "succeeded", "failed"

mainVars == <<fn, pc, exitCode, privateKey, publicKey, signature, tamperedSignature,
              isValid, ccs, pk, vk, assignment, witness, publicWitness, proof, calls>>
testVars == <<tpc, tin, tsig, tnative, twitness, tsolved>>
vars == <<mainVars, testVars>>

\* msg := []byte{0xde, 0xad, 0xf0, 0x0d}
msg == <<222, 173, 240, 13>>

\* one entry of the history
Call(f, op, ok) ==
    [fn |-> f, op |-> op, ok |-> ok,
     ccs |-> 0, setup |-> 0, vkSetup |-> 0, vkCcs |-> 0,
     zero |-> FALSE, pub |-> <<>>, provenPub |-> <<>>, srcs |-> {}]

Count(f, op) ==
    Cardinality({i \in 1..Len(calls) : calls[i].fn = f /\ calls[i].op = op})
CountOp(op) == Cardinality({i \in 1..Len(calls) : calls[i].op = op})

\* the locals of a function that has not run yet
FreshFrame ==
    /\ privateKey' = <<>>
    /\ publicKey' = <<>>
    /\ signature' = <<>>
    /\ tamperedSignature' = <<>>
    /\ isValid' = <<>>
    /\ ccs' = <<>>
    /\ pk' = <<>>
    /\ vk' = <<>>
    /\ assignment' = <<>>
    /\ witness' = <<>>
    /\ publicWitness' = <<>>
    /\ proof' = <<>>

\* an error branch that does not leave the function: the stage runs again
ExitMut(code) ==
    /\ UNCHANGED <<fn, pc, exitCode>>

\* os.Exit(code), or a panic (code 2)
Exit(code) ==
    /\ fn' = "exit"
    /\ pc' = "exited"
    /\ exitCode' = code

\* a main that returns after its first function
MainAfterMut(f) == "exit"

\* main: the function called after f returns; "exit" when main returns
MainAfter(f) ==
    IF f = "TestEdDSA" THEN "TestEdDSAWithInvalidSignature" ELSE "exit"

Goto(label) ==
    /\ pc' = label
    /\ UNCHANGED <<fn, exitCode>>

\* the native values a statement reads, by the expression that names them
NativeBytes(expr) ==
    CASE expr = "msg" -> msg
      [] expr = "publicKey.Bytes()" -> PublicKeyBytes(publicKey[1])
      [] expr = "signature" -> signature
      [] expr = "tamperedSignature" -> tamperedSignature
      [] expr = "privateKey.Bytes()" -> PrivateKeyBytes(privateKey[1])

\* var assignment EdDSACircuit, and its three assignments
AssignCircuit(src) ==
    SignatureAssign(
        PublicKeyAssign([ZeroCircuit EXCEPT !.Message = NativeBytes(src.Message)],
                        NativeBytes(src.PublicKey)),
        NativeBytes(src.Signature))

\* the same three assignments, of given bytes
AssignBytes(msgBytes, pkBytes, sigBytes) ==
    SignatureAssign(
        PublicKeyAssign([ZeroCircuit EXCEPT !.Message = msgBytes], pkBytes),
        sigBytes)

Init ==
    /\ fn = "TestEdDSA"
    /\ pc = "New"
    /\ exitCode = -1
    /\ privateKey = <<>>
    /\ publicKey = <<>>
    /\ signature = <<>>
    /\ tamperedSignature = <<>>
    /\ isValid = <<>>
    /\ ccs = <<>>
    /\ pk = <<>>
    /\ vk = <<>>
    /\ assignment = <<>>
    /\ witness = <<>>
    /\ publicWitness = <<>>
    /\ proof = <<>>
    /\ calls = <<>>
    /\ tpc = "idle"
    /\ tin = <<>>
    /\ tsig = <<>>
    /\ tnative = <<>>
    /\ twitness = <<>>
    /\ tsolved = ""

(***************************************************************************)
(* TestEdDSA                                                               *)
(***************************************************************************)
\* privateKey, err := cryptoeddsa.New(twistededwards.BN254, rand.Reader)
VNew ==
    /\ fn = "TestEdDSA" /\ pc = "New"
    /\ \/ /\ \E scalar \in 1..MaxScalar, randSrc \in 0..MaxRand :
               /\ privateKey' = <<NewPrivateKey(scalar, randSrc)>>
               /\ publicKey' = <<Public(NewPrivateKey(scalar, randSrc))>>
          /\ calls' = Append(calls, Call(fn, "New", TRUE))
          /\ Goto("Sign")
       \/ /\ calls' = Append(calls, Call(fn, "New", FALSE))
          /\ Exit(1)
          /\ UNCHANGED <<privateKey, publicKey>>
    /\ UNCHANGED <<signature, tamperedSignature, isValid, ccs, pk, vk, assignment,
                   witness, publicWitness, proof, testVars>>

\* signature, err := privateKey.Sign(msg, hFunc)
VSign ==
    /\ fn = "TestEdDSA" /\ pc = "Sign"
    /\ \/ /\ signature' = Sign(privateKey[1], msg)
          /\ calls' = Append(calls, Call(fn, "Sign", TRUE))
          /\ Goto("Verify")
       \/ /\ calls' = Append(calls, Call(fn, "Sign", FALSE))
          /\ Exit(1)
          /\ UNCHANGED signature
    /\ UNCHANGED <<privateKey, publicKey, tamperedSignature, isValid, ccs, pk, vk,
                   assignment, witness, publicWitness, proof, testVars>>

\* the statement after the native verification: any error or an invalid
\* signature exits
VAfterVerify(res) == IF res.err # "" \/ ~res.isValid THEN "exit" ELSE "Compile"

\* isValid, err := publicKey.Verify(signature, msg, hFunc)
VVerify ==
    /\ fn = "TestEdDSA" /\ pc = "Verify"
    /\ LET res == NativeVerify(publicKey[1], signature, msg)
       IN /\ isValid' = <<res>>
          /\ calls' = Append(calls, Call(fn, "Verify", res.err = "" /\ res.isValid))
          /\ IF VAfterVerify(res) = "exit" THEN Exit(1) ELSE Goto(VAfterVerify(res))
    /\ UNCHANGED <<privateKey, publicKey, signature, tamperedSignature, ccs, pk, vk,
                   assignment, witness, publicWitness, proof, testVars>>

\* a compiler input that already carries the message
VCircuitMut == [ZeroCircuit EXCEPT !.Message = msg]

\* var circuit EdDSACircuit: the value handed to the compiler
VCircuit == ZeroCircuit

\* ccs, err := frontend.Compile(curve.ScalarField(), r1cs.NewBuilder, &circuit)
VCompile ==
    /\ fn = "TestEdDSA" /\ pc = "Compile"
    /\ \/ /\ ccs' = <<Compile(CountOp("Compile") + 1, VCircuit)>>
          /\ calls' = Append(calls, [Call(fn, "Compile", TRUE) EXCEPT
                                        !.ccs = CountOp("Compile") + 1,
                                        !.zero = (VCircuit = ZeroCircuit)])
          /\ Goto("Setup")
       \/ /\ calls' = Append(calls, [Call(fn, "Compile", FALSE) EXCEPT
                                        !.zero = (VCircuit = ZeroCircuit)])
          /\ Exit(1)
          /\ UNCHANGED ccs
    /\ UNCHANGED <<privateKey, publicKey, signature, tamperedSignature, isValid, pk, vk,
                   assignment, witness, publicWitness, proof, testVars>>

\* pk, vk, err := groth16.Setup(ccs)
VSetup ==
    /\ fn = "TestEdDSA" /\ pc = "Setup"
    /\ \/ /\ pk' = <<SetupPk(CountOp("Setup") + 1, ccs[1])>>
          /\ vk' = <<SetupVk(CountOp("Setup") + 1, ccs[1])>>
          /\ calls' = Append(calls, [Call(fn, "Setup", TRUE) EXCEPT
                                        !.ccs = ccs[1].id,
                                        !.setup = CountOp("Setup") + 1])
          /\ Goto("Assign")
       \/ /\ calls' = Append(calls, [Call(fn, "Setup", FALSE) EXCEPT !.ccs = ccs[1].id])
          /\ Exit(1)
          /\ UNCHANGED <<pk, vk>>
    /\ UNCHANGED <<privateKey, publicKey, signature, tamperedSignature, isValid, ccs,
                   assignment, witness, publicWitness, proof, testVars>>

\* an assignment that reads the private key's bytes
VAssignSourcesMut ==
    [Message |-> "msg", PublicKey |-> "publicKey.Bytes()",
     Signature |-> "privateKey.Bytes()"]

\* the native values assigned to the circuit's fields
VAssignSources ==
    [Message |-> "msg", PublicKey |-> "publicKey.Bytes()", Signature |-> "signature"]

\* var assignment EdDSACircuit; assignment.Message = msg;
\* assignment.PublicKey.Assign(...); assignment.Signature.Assign(...)
VAssign ==
    /\ fn = "TestEdDSA" /\ pc = "Assign"
    /\ LET a == AssignCircuit(VAssignSources)
           srcs == {VAssignSources.Message, VAssignSources.PublicKey,
                    VAssignSources.Signature}
       IN /\ assignment' = <<a>>
          /\ calls' = Append(calls, [Call(fn, "Assign", a.panic = "") EXCEPT
                                        !.srcs = srcs])
          /\ IF a.panic # "" THEN Exit(2) ELSE Goto("NewWitness")
    /\ UNCHANGED <<privateKey, publicKey, signature, tamperedSignature, isValid, ccs,
                   pk, vk, witness, publicWitness, proof, testVars>>

\* witness, err := frontend.NewWitness(&assignment, curve.ScalarField())
VNewWitness ==
    /\ fn = "TestEdDSA" /\ pc = "NewWitness"
    /\ LET w == NewWitness(assignment[1])
       IN /\ witness' = <<w>>
          /\ calls' = Append(calls, [Call(fn, "NewWitness", w.err = "") EXCEPT
                                        !.pub = w.public])
          /\ IF w.err # "" THEN Exit(1) ELSE Goto("Public")
    /\ UNCHANGED <<privateKey, publicKey, signature, tamperedSignature, isValid, ccs,
                   pk, vk, assignment, publicWitness, proof, testVars>>

\* publicWitness, err := witness.Public()
VPublic ==
    /\ fn = "TestEdDSA" /\ pc = "Public"
    /\ LET w == WitnessPublic(witness[1])
       IN /\ publicWitness' = <<w>>
          /\ calls' = Append(calls, [Call(fn, "Public", w.err = "") EXCEPT
                                        !.pub = w.public])
          /\ IF w.err # "" THEN Exit(1) ELSE Goto("Prove")
    /\ UNCHANGED <<privateKey, publicKey, signature, tamperedSignature, isValid, ccs,
                   pk, vk, assignment, witness, proof, testVars>>

\* the arguments of groth16.Prove(ccs, pk, witness)
VProveArgs == [ccs |-> ccs[1], pk |-> pk[1], witness |-> witness[1]]

\* proof, err := groth16.Prove(ccs, pk, witness)
VProve ==
    /\ fn = "TestEdDSA" /\ pc = "Prove"
    /\ \E randOk \in BOOLEAN :
         LET a == VProveArgs
             res == Prove(a.ccs, a.pk, a.witness, randOk)
         IN /\ proof' = <<res>>
            /\ calls' = Append(calls, [Call(fn, "Prove", res.err = "") EXCEPT
                                          !.ccs = a.ccs.id, !.setup = a.pk.setup,
                                          !.pub = a.witness.public])
            /\ IF res.err # "" THEN Exit(1) ELSE Goto("Groth16Verify")
    /\ UNCHANGED <<privateKey, publicKey, signature, tamperedSignature, isValid, ccs,
                   pk, vk, assignment, witness, publicWitness, testVars>>

\* a verification under the key of another setup
VVerifyArgsMut ==
    [proof |-> proof[1],
     vk |-> [setup |-> vk[1].setup + 1, ccs |-> vk[1].ccs],
     publicWitness |-> publicWitness[1]]

\* the arguments of groth16.Verify(proof, vk, publicWitness)
VVerifyArgs == [proof |-> proof[1], vk |-> vk[1], publicWitness |-> publicWitness[1]]

\* err = groth16.Verify(proof, vk, publicWitness); then TestEdDSA returns and
\* main calls TestEdDSAWithInvalidSignature
VGroth16Verify ==
    /\ fn = "TestEdDSA" /\ pc = "Groth16Verify"
    /\ LET a == VVerifyArgs
           err == Groth16Verify(a.proof, a.vk, a.publicWitness)
       IN /\ calls' = Append(calls, [Call(fn, "Groth16Verify", err = "") EXCEPT
                                        !.ccs = a.proof.ccs, !.setup = a.proof.setup,
                                        !.vkSetup = a.vk.setup, !.vkCcs = a.vk.ccs,
                                        !.pub = a.publicWitness.public,
                                        !.provenPub = a.proof.public])
          /\ IF err # ""
             THEN Exit(1) /\ UNCHANGED <<privateKey, publicKey, signature,
                                         tamperedSignature, isValid, ccs, pk, vk,
                                         assignment, witness, publicWitness, proof>>
             ELSE IF MainAfter(fn) = "exit"
             THEN Exit(0) /\ UNCHANGED <<privateKey, publicKey, signature,
                                         tamperedSignature, isValid, ccs, pk, vk,
                                         assignment, witness, publicWitness, proof>>
             ELSE /\ fn' = MainAfter(fn)
                  /\ pc' = "New"
                  /\ UNCHANGED exitCode
                  /\ FreshFrame
    /\ UNCHANGED testVars

(***************************************************************************)
(* TestEdDSAWithInvalidSignature                                           *)
(***************************************************************************)
\* privateKey, err := cryptoeddsa.New(twistededwards.BN254, rand.Reader)
TNew ==
    /\ fn = "TestEdDSAWithInvalidSignature" /\ pc = "New"
    /\ \/ /\ \E scalar \in 1..MaxScalar, randSrc \in 0..MaxRand :
               /\ privateKey' = <<NewPrivateKey(scalar, randSrc)>>
               /\ publicKey' = <<Public(NewPrivateKey(scalar, randSrc))>>
          /\ calls' = Append(calls, Call(fn, "New", TRUE))
          /\ Goto("Sign")
       \/ /\ calls' = Append(calls, Call(fn, "New", FALSE))
          /\ Exit(1)
          /\ UNCHANGED <<privateKey, publicKey>>
    /\ UNCHANGED <<signature, tamperedSignature, isValid, ccs, pk, vk, assignment,
                   witness, publicWitness, proof, testVars>>

\* signature, err := privateKey.Sign(msg, hFunc)
TSign ==
    /\ fn = "TestEdDSAWithInvalidSignature" /\ pc = "Sign"
    /\ \/ /\ signature' = Sign(privateKey[1], msg)
          /\ calls' = Append(calls, Call(fn, "Sign", TRUE))
          /\ Goto("Tamper")
       \/ /\ calls' = Append(calls, Call(fn, "Sign", FALSE))
          /\ Exit(1)
          /\ UNCHANGED signature
    /\ UNCHANGED <<privateKey, publicKey, tamperedSignature, isValid, ccs, pk, vk,
                   assignment, witness, publicWitness, proof, testVars>>

\* a copy of the signature with no bit flipped
TamperMut(sig) == sig

\* tamperedSignature := copy of signature; tamperedSignature[0] ^= 0x01
Tamper(sig) == <<XorBit(sig[1], 0)>> \o Tail(sig)

TTamper ==
    /\ fn = "TestEdDSAWithInvalidSignature" /\ pc = "Tamper"
    /\ tamperedSignature' = Tamper(signature)
    /\ Goto("Verify")
    /\ UNCHANGED <<privateKey, publicKey, signature, isValid, ccs, pk, vk, assignment,
                   witness, publicWitness, proof, calls, testVars>>

\* the statement after the native verification of the tampered signature:
\* an error is printed as expected, a valid signature exits
TAfterVerify(res) ==
    IF res.err # "" THEN "Compile"
    ELSE IF res.isValid THEN "exit"
    ELSE "Compile"

\* isValid, err := publicKey.Verify(tamperedSignature, msg, hFunc)
TVerify ==
    /\ fn = "TestEdDSAWithInvalidSignature" /\ pc = "Verify"
    /\ LET res == NativeVerify(publicKey[1], tamperedSignature, msg)
       IN /\ isValid' = <<res>>
          /\ calls' = Append(calls, Call(fn, "Verify", res.err = "" /\ res.isValid))
          /\ IF TAfterVerify(res) = "exit" THEN Exit(1) ELSE Goto(TAfterVerify(res))
    /\ UNCHANGED <<privateKey, publicKey, signature, tamperedSignature, ccs, pk, vk,
                   assignment, witness, publicWitness, proof, testVars>>

\* var circuit EdDSACircuit: the value handed to the compiler
TCircuit == ZeroCircuit

\* ccs, err := frontend.Compile(curve.ScalarField(), r1cs.NewBuilder, &circuit)
TCompile ==
    /\ fn = "TestEdDSAWithInvalidSignature" /\ pc = "Compile"
    /\ \/ /\ ccs' = <<Compile(CountOp("Compile") + 1, TCircuit)>>
          /\ calls' = Append(calls, [Call(fn, "Compile", TRUE) EXCEPT
                                        !.ccs = CountOp("Compile") + 1,
                                        !.zero = (TCircuit = ZeroCircuit)])
          /\ Goto("Setup")
       \/ /\ calls' = Append(calls, [Call(fn, "Compile", FALSE) EXCEPT
                                        !.zero = (TCircuit = ZeroCircuit)])
          /\ Exit(1)
          /\ UNCHANGED ccs
    /\ UNCHANGED <<privateKey, publicKey, signature, tamperedSignature, isValid, pk, vk,
                   assignment, witness, publicWitness, proof, testVars>>

\* pk, _, err := groth16.Setup(ccs)
TSetup ==
    /\ fn = "TestEdDSAWithInvalidSignature" /\ pc = "Setup"
    /\ \/ /\ pk' = <<SetupPk(CountOp("Setup") + 1, ccs[1])>>
          /\ calls' = Append(calls, [Call(fn, "Setup", TRUE) EXCEPT
                                        !.ccs = ccs[1].id,
                                        !.setup = CountOp("Setup") + 1])
          /\ Goto("Assign")
       \/ /\ calls' = Append(calls, [Call(fn, "Setup", FALSE) EXCEPT !.ccs = ccs[1].id])
          /\ Exit(1)
          /\ UNCHANGED pk
    /\ UNCHANGED <<privateKey, publicKey, signature, tamperedSignature, isValid, ccs, vk,
                   assignment, witness, publicWitness, proof, testVars>>

\* the native values assigned to the circuit's fields
TAssignSources ==
    [Message |-> "msg", PublicKey |-> "publicKey.Bytes()",
     Signature |-> "tamperedSignature"]

\* var assignment EdDSACircuit; assignment.Message = msg;
\* assignment.PublicKey.Assign(...); assignment.Signature.Assign(tampered)
TAssign ==
    /\ fn = "TestEdDSAWithInvalidSignature" /\ pc = "Assign"
    /\ LET a == AssignCircuit(TAssignSources)
           srcs == {TAssignSources.Message, TAssignSources.PublicKey,
                    TAssignSources.Signature}
       IN /\ assignment' = <<a>>
          /\ calls' = Append(calls, [Call(fn, "Assign", a.panic = "") EXCEPT
                                        !.srcs = srcs])
          /\ IF a.panic # "" THEN Exit(2) ELSE Goto("NewWitness")
    /\ UNCHANGED <<privateKey, publicKey, signature, tamperedSignature, isValid, ccs,
                   pk, vk, witness, publicWitness, proof, testVars>>

\* witness, err := frontend.NewWitness(&assignment, curve.ScalarField())
TNewWitness ==
    /\ fn = "TestEdDSAWithInvalidSignature" /\ pc = "NewWitness"
    /\ LET w == NewWitness(assignment[1])
       IN /\ witness' = <<w>>
          /\ calls' = Append(calls, [Call(fn, "NewWitness", w.err = "") EXCEPT
                                        !.pub = w.public])
          /\ IF w.err # "" THEN Exit(1) ELSE Goto("Prove")
    /\ UNCHANGED <<privateKey, publicKey, signature, tamperedSignature, isValid, ccs,
                   pk, vk, assignment, publicWitness, proof, testVars>>

\* the arguments of groth16.Prove(ccs, pk, witness)
TProveArgs == [ccs |-> ccs[1], pk |-> pk[1], witness |-> witness[1]]

\* the end of the function: a proof is unexpected and exits with status 1;
\* an error lets the function return (0)
TAfterProve(res) == IF res.err = "" THEN 1 ELSE 0

\* _, err = groth16.Prove(ccs, pk, witness)
TProve ==
    /\ fn = "TestEdDSAWithInvalidSignature" /\ pc = "Prove"
    /\ \E randOk \in BOOLEAN :
         LET a == TProveArgs
             res == Prove(a.ccs, a.pk, a.witness, randOk)
         IN /\ proof' = <<res>>
            /\ calls' = Append(calls, [Call(fn, "Prove", res.err = "") EXCEPT
                                          !.ccs = a.ccs.id, !.setup = a.pk.setup,
                                          !.pub = a.witness.public])
            /\ IF TAfterProve(res) # 0 THEN Exit(TAfterProve(res))
               ELSE MainAfter(fn) = "exit" /\ Exit(0)
    /\ UNCHANGED <<privateKey, publicKey, signature, tamperedSignature, isValid, ccs,
                   pk, vk, assignment, witness, publicWitness, testVars>>

Next ==
    \/ VNew \/ VSign \/ VVerify \/ VCompile \/ VSetup \/ VAssign \/ VNewWitness
    \/ VPublic \/ VProve \/ VGroth16Verify
    \/ TNew \/ TSign \/ TTamper \/ TVerify \/ TCompile \/ TSetup \/ TAssign
    \/ TNewWitness \/ TProve

Spec == Init /\ [][Next]_vars

(***************************************************************************)
(* TestEdDSACircuit, over inputs drawn from bounded sets: a key pair, a    *)
(* message and a change that turns the valid triple into another one (the  *)
(* test itself flips bit 0 of byte 0 of the signature).                    *)
(***************************************************************************)
Msgs == {msg, <<1, 2>>}

\* <<byte, bit>> of the signature that a change flips; bytes count from 1
FlipPositions == {<<1, 0>>, <<1, 1>>, <<2, 7>>, <<3, 0>>, <<4, 0>>}

Changes ==
    {[kind |-> k, byte |-> 0, bit |-> 0] : k \in {"none", "key", "msg"}}
    \cup {[kind |-> "flip", byte |-> f[1], bit |-> f[2]] : f \in FlipPositions}

TestInputs ==
    {[scalar |-> sc, randSrc |-> r, msg |-> m, change |-> c] :
        sc \in 1..MaxScalar, r \in 0..MaxRand, m \in Msgs, c \in Changes}

\* the signature with one bit flipped
FlipBit(sig, byte, bit) == [sig EXCEPT ![byte] = XorBit(sig[byte], bit)]

\* a triple whose public key belongs to another private key
TestTripleMut(in, sig) ==
    [publicKey |-> Public(NewPrivateKey(in.scalar + 1, in.randSrc)),
     msg |-> IF in.change.kind = "msg" THEN in.msg \o <<1>> ELSE in.msg,
     sig |-> IF in.change.kind = "flip"
             THEN FlipBit(sig, in.change.byte, in.change.bit) ELSE sig]

\* the triple (public key, message, signature) the test verifies and encodes
TestTriple(in, sig) ==
    [publicKey |-> IF in.change.kind = "key"
                   THEN Public(NewPrivateKey(in.scalar + 1, in.randSrc))
                   ELSE Public(NewPrivateKey(in.scalar, in.randSrc)),
     msg |-> IF in.change.kind = "msg" THEN in.msg \o <<1>> ELSE in.msg,
     sig |-> IF in.change.kind = "flip"
             THEN FlipBit(sig, in.change.byte, in.change.bit) ELSE sig]

TestInit ==
    /\ fn = "TestEdDSA"
    /\ pc = "New"
    /\ exitCode = -1
    /\ privateKey = <<>>
    /\ publicKey = <<>>
    /\ signature = <<>>
    /\ tamperedSignature = <<>>
    /\ isValid = <<>>
    /\ ccs = <<>>
    /\ pk = <<>>
    /\ vk = <<>>
    /\ assignment = <<>>
    /\ witness = <<>>
    /\ publicWitness = <<>>
    /\ proof = <<>>
    /\ calls = <<>>
    /\ tpc = "Sign"
    /\ tin \in TestInputs
    /\ tsig = <<>>
    /\ tnative = <<>>
    /\ twitness = <<>>
    /\ tsolved = ""

\* signature, err := privateKey.Sign(msg, hFunc)
CSign ==
    /\ tpc = "Sign"
    /\ tsig' = Sign(NewPrivateKey(tin.scalar, tin.randSrc), tin.msg)
    /\ tpc' = "Verify"
    /\ UNCHANGED <<mainVars, tin, tnative, twitness, tsolved>>

\* isValid, err := publicKey.Verify(signature, msg, hFunc), of the triple
CVerify ==
    /\ tpc = "Verify"
    /\ LET t == TestTriple(tin, tsig)
       IN tnative' = <<NativeVerify(t.publicKey, t.sig, t.msg)>>
    /\ tpc' = "Assign"
    /\ UNCHANGED <<mainVars, tin, tsig, twitness, tsolved>>

\* the assignment of the triple and its witness; Assign panics on bytes
\* that do not decode
CAssign ==
    /\ tpc = "Assign"
    /\ LET t == TestTriple(tin, tsig)
           a == AssignBytes(t.msg, PublicKeyBytes(t.publicKey), t.sig)
       IN IF a.panic # ""
          THEN /\ twitness' = <<>>
               /\ tpc' = "panic"
          ELSE /\ twitness' = <<NewWitness(a)>>
               /\ tpc' = "Solve"
    /\ UNCHANGED <<mainVars, tin, tsig, tnative, tsolved>>

\* assert.SolvingSucceeded / assert.SolvingFailed: the solver's outcome
CSolve ==
    /\ tpc = "Solve"
    /\ tsolved' = IF IsSolved(twitness[1]) THEN "succeeded" ELSE "failed"
    /\ tpc' = "done"
    /\ UNCHANGED <<mainVars, tin, tsig, tnative, twitness>>

TestNext == CSign \/ CVerify \/ CAssign \/ CSolve

TestSpec == TestInit /\ [][TestNext]_vars

(***************************************************************************)
(* Properties of TestSpec (the circuit against native verification).       *)
(***************************************************************************)
\* C1: for every triple (public key, message, signature) that can be encoded
\* as a witness, the circuit's constraints are satisfied exactly when native
\* verification returns true
C1_CircuitMatchesNative ==
    tpc = "done" =>
        (tsolved = "succeeded" <=> (tnative[1].err = "" /\ tnative[1].isValid))

\* a changed signature that still decodes: native verification returns false
\* and solving fails
C1_Witness ==
    /\ tpc = "done"
    /\ tin.change.kind = "flip"
    /\ tnative[1].err = ""
    /\ ~tnative[1].isValid
    /\ tsolved = "failed"

\* C5: for every key pair and every message, the signature made with the
\* private key verifies natively under the matching public key and the same
\* message: the result is true, without an error
C5_SignThenVerify ==
    (tnative # <<>> /\ tin.change.kind = "none") =>
        (tnative[1].err = "" /\ tnative[1].isValid)

\* an unchanged triple of the second message has been verified and solved
C5_Witness ==
    /\ tin.change.kind = "none"
    /\ tin.msg # msg
    /\ tnative # <<>>
    /\ tnative[1].isValid
    /\ tsolved = "succeeded"

(***************************************************************************)
(* Properties of Spec (the program).                                       *)
(***************************************************************************)
Valid == "TestEdDSA"
Tampered == "TestEdDSAWithInvalidSignature"

\* the history of one function
CallsOf(f) == LET In(e) == e.fn = f IN SelectSeq(calls, In)

\* C2: once bit 0 of byte 0 of a valid signature is flipped, native
\* verification does not return true, the constraints are unsatisfied on the
\* tampered witness, proving with it fails, and no proof of the tampered
\* signature is ever produced
C2_TamperedRejected ==
    /\ tamperedSignature # <<>> =>
          /\ tamperedSignature # signature
          /\ Tail(tamperedSignature) = Tail(signature)
          /\ isValid # <<>> => ~isValid[1].isValid
          /\ (witness # <<>> /\ witness[1].err = "") => ~IsSolved(witness[1])
          /\ proof # <<>> => proof[1].err # ""
    /\ \A i \in 1..Len(calls) :
          (calls[i].fn = Tampered /\ calls[i].op \in {"Verify", "Prove"})
              => ~calls[i].ok

\* the prover has refused the tampered witness for its unsatisfied constraint
C2_Witness ==
    /\ tamperedSignature # <<>>
    /\ proof # <<>>
    /\ proof[1].err = "constraint not satisfied"

\* C3: on the tampered path neither native verification nor the encoding
\* of the witness ends in an encoding error: the failure is the prover's
C3_TamperedFailsAtSolving ==
    tamperedSignature # <<>> =>
        /\ isValid # <<>> => isValid[1].err = ""
        /\ assignment # <<>> => assignment[1].panic = ""
        /\ witness # <<>> => witness[1].err = ""
        /\ exitCode # 2

SignatureLeaves == {"Signature.R.X", "Signature.R.Y", "Signature.S"}

\* C4: the signature is a private input: the public part of the witness
\* has no component of the signature
C4_SignatureIsPrivate ==
    publicWitness # <<>> =>
        \A i \in 1..Len(publicWitness[1].public) :
            publicWitness[1].public[i].name \notin SignatureLeaves

\* the names of the leaves of a witness
LeafNames(w) ==
    {w.public[i].name : i \in 1..Len(w.public)}
    \cup {w.secret[i].name : i \in 1..Len(w.secret)}

WitnessLeaves ==
    {"PublicKey.A.X", "PublicKey.A.Y", "Message"} \cup SignatureLeaves

\* C6: the private key is used by native signing only: no assignment reads
\* it, the witness holds the public key, the signature and the message and
\* nothing else, and the compiled circuit holds no data at all
C6_PrivateKeyStaysNative ==
    /\ \A i \in 1..Len(calls) :
          /\ "privateKey.Bytes()" \notin calls[i].srcs
          /\ calls[i].op = "Assign" =>
                calls[i].srcs \in {{"msg", "publicKey.Bytes()", "signature"},
                                   {"msg", "publicKey.Bytes()", "tamperedSignature"}}
          /\ calls[i].op # "Assign" => calls[i].srcs = {}
          /\ calls[i].op = "Compile" => calls[i].zero
    /\ (witness # <<>> /\ witness[1].err = "") => LeafNames(witness[1]) = WitnessLeaves
    /\ (assignment # <<>> /\ assignment[1].panic = "" /\ privateKey # <<>>) =>
          assignment[1] = AssignBytes(msg, PublicKeyBytes(publicKey[1]),
                                      IF tamperedSignature # <<>>
                                      THEN tamperedSignature ELSE signature)

\* both functions have assigned and encoded their witnesses
C6_Witness ==
    /\ Count(Valid, "Assign") = 1
    /\ Count(Tampered, "Assign") = 1
    /\ witness # <<>>
    /\ witness[1].err = ""
    /\ tamperedSignature # <<>>

\* C7, as stated: over a run that covers both scenarios the circuit is
\* compiled, and the keys are set up, a single time
C7_CompiledOnce == CountOp("Compile") <= 1 /\ CountOp("Setup") <= 1

\* C7, amended: each scenario compiles the circuit once, from a circuit
\* value that carries no data, and sets up once; the scenario's setup and
\* proving use the system that scenario compiled; a run that succeeds has
\* compiled and set up twice
C7_CompiledOncePerScenario ==
    /\ \A f \in {Valid, Tampered} : Count(f, "Compile") <= 1 /\ Count(f, "Setup") <= 1
    /\ \A i \in 1..Len(calls) :
          /\ calls[i].op = "Compile" => calls[i].zero
          /\ calls[i].op \in {"Setup", "Prove"} =>
                \E j \in 1..(i - 1) :
                    /\ calls[j].op = "Compile"
                    /\ calls[j].fn = calls[i].fn
                    /\ calls[j].ccs = calls[i].ccs
    /\ exitCode = 0 => (CountOp("Compile") = 2 /\ CountOp("Setup") = 2)

\* the second scenario has compiled its own system
C7_Witness ==
    /\ CountOp("Compile") = 2
    /\ Count(Tampered, "Compile") = 1
    /\ exitCode = 0

\* the stages of TestEdDSA, in the order of its statements
StageOrder ==
    <<"New", "Sign", "Verify", "Compile", "Setup", "Assign", "NewWitness",
      "Public", "Prove", "Groth16Verify">>

\* C8: the valid scenario runs its stages in one fixed order, each at most
\* once; a stage runs only when all stages before it succeeded (proving only
\* after native verification returned true); a stage that fails ends the run
\* with a failure status, and nothing is retried
C8_StagesInOrder ==
    LET v == CallsOf(Valid)
    IN /\ Len(v) <= Len(StageOrder)
       /\ \A i \in 1..Len(v) : v[i].op = StageOrder[i]
       /\ \A i \in 1..(Len(v) - 1) : v[i].ok
       /\ (Len(v) > 0 /\ ~v[Len(v)].ok) => (fn = "exit" /\ exitCode >= 1)
       /\ (fn = "exit" /\ CallsOf(Tampered) = <<>>) =>
             (Len(v) > 0 /\ ~v[Len(v)].ok)
       /\ fn = Valid => pc = StageOrder[Len(v) + 1]

\* a stage in the middle of the valid scenario failed and ended the run
C8_Witness ==
    LET v == CallsOf(Valid)
    IN /\ Len(v) = 9
       /\ v[9].op = "Prove"
       /\ ~v[9].ok
       /\ exitCode = 1

\* C9: the program succeeds only if the valid scenario's proof was verified
\* and, after that, proving the tampered signature failed; the tampered
\* scenario starts only after that verification; a proof of the tampered
\* signature ends the program with a failure status
C9_SuccessNeedsBoth ==
    /\ exitCode = 0 =>
          /\ Len(calls) > 0
          /\ calls[Len(calls)].fn = Tampered
          /\ calls[Len(calls)].op = "Prove"
          /\ ~calls[Len(calls)].ok
    /\ \A j \in 1..Len(calls) :
          /\ calls[j].fn = Tampered =>
                \E i \in 1..(j - 1) :
                    /\ calls[i].fn = Valid
                    /\ calls[i].op = "Groth16Verify"
                    /\ calls[i].ok
          /\ (calls[j].fn = Tampered /\ calls[j].op = "Prove" /\ calls[j].ok) =>
                exitCode = 1
    /\ fn = Tampered => Count(Valid, "Groth16Verify") = 1

\* main has returned: both outcomes were observed
C9_Witness ==
    /\ exitCode = 0
    /\ Count(Valid, "Groth16Verify") = 1
    /\ Count(Tampered, "Prove") = 1

\* C10: a proof is verified under the verifying key of the setup that made
\* the proving key, for the system the proof was made for, with the public
\* part of the witness that was proven; keys, system and witness all belong
\* to the scenario that verifies or proves
C10_SameSetupSameWitness ==
    \A i \in 1..Len(calls) :
        /\ calls[i].op = "Groth16Verify" =>
              /\ calls[i].vkSetup = calls[i].setup
              /\ calls[i].vkCcs = calls[i].ccs
              /\ calls[i].pub = calls[i].provenPub
              /\ \E j \in 1..(i - 1) :
                    /\ calls[j].op = "Prove" /\ calls[j].ok
                    /\ calls[j].fn = calls[i].fn
                    /\ calls[j].ccs = calls[i].ccs
                    /\ calls[j].setup = calls[i].setup
                    /\ calls[j].pub = calls[i].pub
        /\ calls[i].op \in {"Prove", "Groth16Verify"} =>
              /\ \E j \in 1..(i - 1) :
                    /\ calls[j].op = "Setup" /\ calls[j].ok
                    /\ calls[j].fn = calls[i].fn
                    /\ calls[j].setup = calls[i].setup
                    /\ calls[j].ccs = calls[i].ccs
              /\ \E j \in 1..(i - 1) :
                    /\ calls[j].op = "NewWitness" /\ calls[j].ok
                    /\ calls[j].fn = calls[i].fn
                    /\ calls[j].pub = calls[i].pub

\* the valid proof was verified and the tampered scenario reached its prover
C10_Witness ==
    /\ \E i \in 1..Len(calls) : calls[i].op = "Groth16Verify" /\ calls[i].ok
    /\ Count(Tampered, "Prove") = 1

====
